---------------------------- MODULE Spec2Model ----------------------------
(***************************************************************************)
(* Count - Document Statistics Analyzer (src/app.py).                      *)
(*                                                                         *)
(* The module models the three layers of app.py:                           *)
(*   - TextAnalyzer.analyze_text, a pure function on strings;              *)
(*   - DocumentProcessor (allowed_file, the four extractors and the        *)
(*     dispatch in process_document);                                      *)
(*   - the Flask handler upload_file, one process per request, with the    *)
(*     temporary directory as the only state requests share.               *)
(*                                                                         *)
(* A text is a sequence of Unicode code points (integers), file content is *)
(* made of bytes (integers below 256) and a filename is a sequence of      *)
(* one-character strings.                                                  *)
(***************************************************************************)
EXTENDS Integers, Sequences, FiniteSets, TLC

VARIABLES
    text,              \* analyze_text: the argument of the call
    result,            \* analyze_text: the returned dictionary
    request,           \* per request: the uploaded file part
    pc,                \* per request: position inside upload_file
    filename,          \* per request: local `filename` of upload_file
    file_path,         \* per request: local `file_path` of upload_file
    text_content,      \* per request: local `text_content`
    analysis_results,  \* per request: local `analysis_results`
    extraction,        \* per request: what process_document did
    outcome,           \* per request: the response of upload_file
    removals,          \* per request: successful os.remove calls
    fs                 \* the temporary directory: path -> content

vars == <<text, result, request, pc, filename, file_path, text_content,
          analysis_results, extraction, outcome, removals, fs>>

analyzerVars == <<text, result>>
uploadVars == <<request, pc, filename, file_path, text_content,
                analysis_results, extraction, outcome, removals, fs>>

-----------------------------------------------------------------------------
(* Bounds of the model *)

\* longest text handed to analyze_text
MaxLen == 4
\* longest stem put in front of the extension of an uploaded filename
MaxStem == 2
\* most rows of an uploaded delimited file
MaxRows == 3
\* rows that one fill of the text reader's buffer holds
ChunkRows == 2

-----------------------------------------------------------------------------
(* Generic helpers *)

SeqsUpTo(S, n) == UNION {[1..k -> S] : k \in 0..n}

RECURSIVE Flatten(_)
Flatten(ss) == IF ss = <<>> THEN <<>> ELSE Head(ss) \o Flatten(Tail(ss))

RECURSIVE Join(_, _)
\* sep.join(parts)
Join(sep, parts) ==
    IF parts = <<>> THEN <<>>
    ELSE IF Len(parts) = 1 THEN Head(parts)
    ELSE Head(parts) \o sep \o Join(sep, Tail(parts))

Min(a, b) == IF a < b THEN a ELSE b

-----------------------------------------------------------------------------
(* Python's str predicates and methods used by analyze_text *)

\* code points for which str.isspace() is true (and on which str.split()
\* with no argument splits)
WhitespaceCodePoints ==
    {9, 10, 11, 12, 13, 28, 29, 30, 31, 32, 133, 160, 5760, 8232, 8233,
     8239, 8287, 12288} \cup (8192..8202)

\* code points at which str.splitlines() breaks a line
LineBoundaryCodePoints == {10, 11, 12, 13, 28, 29, 30, 133, 8232, 8233}

isspace(c) == c \in WhitespaceCodePoints

IsLineBoundary(c) == c \in LineBoundaryCodePoints

RECURSIVE SplitFrom(_, _, _, _)
\* the scan of str.split(): skip whitespace, then take characters up to the
\* next whitespace as one word
SplitFrom(t, i, word, words) ==
    IF i > Len(t)
    THEN IF word = <<>> THEN words ELSE Append(words, word)
    ELSE IF isspace(t[i])
         THEN SplitFrom(t, i + 1, <<>>,
                        IF word = <<>> THEN words ELSE Append(words, word))
         ELSE SplitFrom(t, i + 1, Append(word, t[i]), words)

RECURSIVE SplitOnSpaceFrom(_, _, _, _)
SplitOnSpaceFrom(t, i, word, words) ==
    IF i > Len(t) THEN Append(words, word)
    ELSE IF t[i] = 32
         THEN SplitOnSpaceFrom(t, i + 1, <<>>, Append(words, word))
         ELSE SplitOnSpaceFrom(t, i + 1, Append(word, t[i]), words)

\* text.split(' ') in place of text.split()
SplitOnSpace(t) == SplitOnSpaceFrom(t, 1, <<>>, <<>>)

split(t) == SplitFrom(t, 1, <<>>, <<>>)

RECURSIVE lstrip(_)
lstrip(t) == IF t # <<>> /\ isspace(Head(t)) THEN lstrip(Tail(t)) ELSE t

RECURSIVE rstrip(_)
rstrip(t) ==
    IF t # <<>> /\ isspace(t[Len(t)]) THEN rstrip(SubSeq(t, 1, Len(t) - 1))
    ELSE t

strip(t) == rstrip(lstrip(t))

RECURSIVE SplitLinesFrom(_, _, _, _)
\* the scan of str.splitlines(): i is the read position, j the start of the
\* current line; "\r\n" is consumed as one boundary; what is left after the
\* last boundary is a line only when it is not empty
SplitLinesFrom(t, i, j, lines) ==
    IF i > Len(t)
    THEN IF j <= Len(t) THEN Append(lines, SubSeq(t, j, Len(t))) ELSE lines
    ELSE IF IsLineBoundary(t[i])
         THEN LET next == IF t[i] = 13 /\ i < Len(t) /\ t[i + 1] = 10
                          THEN i + 2 ELSE i + 1
              IN  SplitLinesFrom(t, next, next,
                                 Append(lines, SubSeq(t, j, i - 1)))
         ELSE SplitLinesFrom(t, i + 1, j, lines)

splitlines(t) == SplitLinesFrom(t, 1, 1, <<>>)

-----------------------------------------------------------------------------
(* TextAnalyzer.analyze_text *)

\* len(text.encode('utf-8')) in place of len(text)
ByteLength(t) ==
    Len(t) + Cardinality({i \in 1..Len(t) : t[i] > 127})
           + Cardinality({i \in 1..Len(t) : t[i] > 2047})

\* len(text)
char_count(t) == Len(t)

\* [word for word in text.split() if word.strip()]
words(t) == SelectSeq(split(t), LAMBDA word : strip(word) # <<>>)

\* whitespace counted once per run in place of once per character
WhitespaceRuns(t) ==
    Cardinality({i \in 1..Len(t) :
                    isspace(t[i]) /\ (i = 1 \/ ~isspace(t[i - 1]))})

\* sum(1 for char in text if char.isspace())
whitespace_count(t) == Cardinality({i \in 1..Len(t) : isspace(t[i])})

\* text.count('\n') + 1 in place of len(text.splitlines())
LineCountByNewlines(t) ==
    IF t # <<>> THEN Cardinality({i \in 1..Len(t) : t[i] = 10}) + 1 ELSE 0

\* len(text.splitlines()) if text else 0
line_count(t) == IF t # <<>> THEN Len(splitlines(t)) ELSE 0

analyze_text(t) ==
    [word_count       |-> Len(words(t)),
     character_count  |-> char_count(t),
     whitespace_count |-> whitespace_count(t),
     line_count       |-> line_count(t)]

\* value of `result` and `analysis_results` before the call has returned
NoResult ==
    [word_count |-> -1, character_count |-> -1, whitespace_count |-> -1,
     line_count |-> -1]

-----------------------------------------------------------------------------
(* Texts handed to analyze_text *)

\* 'a', e-acute, space, "\n", "\r", U+001F (whitespace, no line boundary)
\* and U+2028 (whitespace and line boundary, three bytes in utf-8)
TextAlphabet == {97, 233, 32, 10, 13, 31, 8232}

\* "hello world"
HelloWorld == <<104, 101, 108, 108, 111, 32, 119, 111, 114, 108, 100>>
\* "   \n  "
SpacesNewlineSpaces == <<32, 32, 32, 10, 32, 32>>
\* "line1\nline2\nline3"
ThreeLines ==
    <<108, 105, 110, 101, 49, 10, 108, 105, 110, 101, 50, 10,
      108, 105, 110, 101, 51>>
\* "line1\nline2\nline3\n"
ThreeLinesNewline == Append(ThreeLines, 10)
\* " a  b\r\n"
PaddedWords == <<32, 97, 32, 32, 98, 13, 10>>

ExampleTexts ==
    {HelloWorld, SpacesNewlineSpaces, ThreeLines, ThreeLinesNewline,
     PaddedWords}

Texts == SeqsUpTo(TextAlphabet, MaxLen) \cup ExampleTexts

-----------------------------------------------------------------------------
(* SpecAnalyze: a call of analyze_text on an arbitrary text *)

UploadIdle ==
    /\ request = <<>>
    /\ pc = <<>>
    /\ filename = <<>>
    /\ file_path = <<>>
    /\ text_content = <<>>
    /\ analysis_results = <<>>
    /\ extraction = <<>>
    /\ outcome = <<>>
    /\ removals = <<>>
    /\ fs = <<>>

InitAnalyze ==
    /\ text \in Texts
    /\ result = NoResult
    /\ UploadIdle

Analyze ==
    /\ result = NoResult
    /\ result' = analyze_text(text)
    /\ UNCHANGED <<text, uploadVars>>

NextAnalyze == Analyze

SpecAnalyze == InitAnalyze /\ [][NextAnalyze]_vars

Analyzed == result # NoResult

\* positions of t that start a maximal run of non-whitespace characters
NonWhitespaceRunStarts(t) ==
    {i \in 1..Len(t) : ~isspace(t[i]) /\ (i = 1 \/ isspace(t[i - 1]))}

\* positions of t that end a line terminator; the "\n" of "\r\n" ends the
\* terminator that its "\r" began, so the "\r" is not counted again
TerminatorEnds(t) ==
    {i \in 1..Len(t) :
        /\ IsLineBoundary(t[i])
        /\ ~(t[i] = 13 /\ i < Len(t) /\ t[i + 1] = 10)}

EndsWithTerminator(t) == t # <<>> /\ IsLineBoundary(t[Len(t)])

\* lines of t: one per terminator, and one more for what follows the last
\* terminator when that is not empty
LinesOf(t) ==
    Cardinality(TerminatorEnds(t))
        + (IF t # <<>> /\ ~EndsWithTerminator(t) THEN 1 ELSE 0)

OnlyWhitespace(t) == \A i \in 1..Len(t) : isspace(t[i])

\* C1: character_count is the number of code points of the text, and
\* word_count and whitespace_count never exceed it.
C1_CharacterCount ==
    Analyzed =>
        /\ result.character_count = Len(text)
        /\ result.word_count <= result.character_count
        /\ result.whitespace_count <= result.character_count

C1_Witness ==
    /\ Analyzed
    /\ \E i \in 1..Len(text) : text[i] > 127
    /\ result.word_count > 1
    /\ result.whitespace_count > 1

\* C2: word_count is the number of maximal runs of non-whitespace
\* characters, whitespace being the class whitespace_count counts.
C2_WordCount ==
    Analyzed => result.word_count = Cardinality(NonWhitespaceRunStarts(text))

C2_Witness ==
    /\ Analyzed
    /\ text = PaddedWords
    /\ result.word_count = 2
    /\ result.whitespace_count = 5

\* C3: line_count is 0 for the empty text and otherwise the number of lines
\* between terminators, "\r\n" being one terminator and a terminator at the
\* end adding no line; the two example texts have three lines.
C3_LineCount ==
    Analyzed =>
        /\ text = <<>> => result.line_count = 0
        /\ result.line_count = LinesOf(text)
        /\ (text # <<>> /\ TerminatorEnds(text) = {}) => result.line_count = 1
        /\ text \in {ThreeLines, ThreeLinesNewline} => result.line_count = 3

C3_Witness ==
    /\ Analyzed
    /\ \E i \in 1..(Len(text) - 1) : text[i] = 13 /\ text[i + 1] = 10
    /\ EndsWithTerminator(text)
    /\ result.line_count = 2

\* C4 as stated: a text of whitespace only has word_count 0,
\* whitespace_count = character_count and line_count equal to the number of
\* line breaks in it (1 for three spaces, a newline and two spaces).
C4_Original ==
    (Analyzed /\ OnlyWhitespace(text)) =>
        /\ result.word_count = 0
        /\ result.whitespace_count = result.character_count
        /\ result.line_count = Cardinality(TerminatorEnds(text))
        /\ text = SpacesNewlineSpaces => result.line_count = 1

\* C4 as amended: a text of whitespace only has word_count 0,
\* whitespace_count = character_count and line_count equal to the number of
\* line breaks in it plus one when the text is not empty and does not end
\* with a line break (2 for three spaces, a newline and two spaces).
C4_WhitespaceOnly ==
    (Analyzed /\ OnlyWhitespace(text)) =>
        /\ result.word_count = 0
        /\ result.whitespace_count = result.character_count
        /\ result.line_count =
               Cardinality(TerminatorEnds(text))
                   + (IF text # <<>> /\ ~EndsWithTerminator(text)
                      THEN 1 ELSE 0)
        /\ text = SpacesNewlineSpaces => result.line_count = 2

C4_Witness ==
    /\ Analyzed
    /\ text = SpacesNewlineSpaces
    /\ result.word_count = 0
    /\ result.whitespace_count = 6
    /\ result.line_count = 2

-----------------------------------------------------------------------------
(* Filenames: sequences of characters.  "U+6587" stands for one CJK        *)
(* character: it is not ASCII and NFKD leaves it as it is.                 *)

AsciiUpper ==
    <<"A", "B", "C", "D", "E", "F", "G", "H", "I", "J", "K", "L", "M",
      "N", "O", "P", "Q", "R", "S", "T", "U", "V", "W", "X", "Y", "Z">>

AsciiLower ==
    <<"a", "b", "c", "d", "e", "f", "g", "h", "i", "j", "k", "l", "m",
      "n", "o", "p", "q", "r", "s", "t", "u", "v", "w", "x", "y", "z">>

AsciiDigits == {"0", "1", "2", "3", "4", "5", "6", "7", "8", "9"}

AsciiLetters ==
    {AsciiUpper[i] : i \in 1..26} \cup {AsciiLower[i] : i \in 1..26}

NonAsciiChars == {"U+6587"}

LowerChar(c) ==
    IF \E i \in 1..26 : AsciiUpper[i] = c
    THEN AsciiLower[CHOOSE i \in 1..26 : AsciiUpper[i] = c]
    ELSE c

\* str.lower()
lower(s) == [i \in 1..Len(s) |-> LowerChar(s[i])]

Dots(s) == {i \in 1..Len(s) : s[i] = "."}

LastDot(s) == CHOOSE k \in Dots(s) : \A j \in Dots(s) : j <= k

\* s.rsplit('.', 1): the list of one or two parts
rsplit(s) ==
    IF Dots(s) = {} THEN <<s>>
    ELSE <<SubSeq(s, 1, LastDot(s) - 1), SubSeq(s, LastDot(s) + 1, Len(s))>>

txt == <<"t", "x", "t">>
csv == <<"c", "s", "v">>
rtf == <<"r", "t", "f">>
docx == <<"d", "o", "c", "x">>
doc == <<"d", "o", "c">>

ALLOWED_EXTENSIONS == {txt, csv, rtf, docx, doc}

allowed_file(name) ==
    /\ Dots(name) # {}
    /\ lower(rsplit(name)[2]) \in ALLOWED_EXTENSIONS

-----------------------------------------------------------------------------
(* werkzeug.utils.secure_filename, as upload_file uses it *)

RECURSIVE SplitBlanksFrom(_, _, _, _)
\* str.split() on a filename, whose only whitespace character is " "
SplitBlanksFrom(s, i, part, parts) ==
    IF i > Len(s)
    THEN IF part = <<>> THEN parts ELSE Append(parts, part)
    ELSE IF s[i] = " "
         THEN SplitBlanksFrom(s, i + 1, <<>>,
                              IF part = <<>> THEN parts
                              ELSE Append(parts, part))
         ELSE SplitBlanksFrom(s, i + 1, Append(part, s[i]), parts)

\* the characters that the pattern [^A-Za-z0-9_.-] leaves in place
FilenameSafeChars == AsciiLetters \cup AsciiDigits \cup {"_", ".", "-"}

RECURSIVE LStripDotUnderscore(_)
LStripDotUnderscore(s) ==
    IF s # <<>> /\ Head(s) \in {".", "_"}
    THEN LStripDotUnderscore(Tail(s)) ELSE s

RECURSIVE RStripDotUnderscore(_)
RStripDotUnderscore(s) ==
    IF s # <<>> /\ s[Len(s)] \in {".", "_"}
    THEN RStripDotUnderscore(SubSeq(s, 1, Len(s) - 1)) ELSE s

\* secure_filename(name) on a POSIX host: drop what is not ASCII, turn the
\* path separator into a blank, join the blank-separated parts with "_",
\* drop unsafe characters, strip leading and trailing "." and "_"
secure_filename(name) ==
    LET ascii    == SelectSeq(name, LAMBDA c : c \notin NonAsciiChars)
        unsep    == [i \in 1..Len(ascii) |->
                        IF ascii[i] = "/" THEN " " ELSE ascii[i]]
        joined   == Join(<<"_">>, SplitBlanksFrom(unsep, 1, <<>>, <<>>))
        filtered == SelectSeq(joined, LAMBDA c : c \in FilenameSafeChars)
    IN  RStripDotUnderscore(LStripDotUnderscore(filtered))

-----------------------------------------------------------------------------
(* File content and the temporary directory *)

\* A delimited file is its rows, a row its cells, a cell its bytes; a
\* word-processor package is its paragraphs, each a text.
Delimited(rows) == [kind |-> "delimited", body |-> rows]
Package(paragraphs) == [kind |-> "package", body |-> paragraphs]

\* the bytes of a delimited file: cells separated by ",", rows ended by
\* "\r\n"
RowBytes(row) == Join(<<44>>, row) \o <<13, 10>>

FileBytes(content) ==
    Flatten([i \in 1..Len(content.body) |-> RowBytes(content.body[i])])

\* fs is a set of <<path, content>> pairs, one pair at most for a path
exists(files, path) == \E f \in files : f[1] = path

ContentAt(files, path) == (CHOOSE f \in files : f[1] = path)[2]

\* file.save(path): create or overwrite
SaveFile(files, path, content) ==
    {f \in files : f[1] # path} \cup {<<path, content>>}

\* os.remove(path) on a path that exists
RemoveFile(files, path) == {f \in files : f[1] # path}

\* os.path.join(tempfile.gettempdir(), filename); the temporary directory
\* is the same for every request
JoinTempDir(name) == <<"/", "t", "m", "p", "/">> \o name

-----------------------------------------------------------------------------
(* Decoding *)

IsContinuation(b) == b >= 128 /\ b <= 191

RECURSIVE Utf8DecodeFrom(_, _, _)
\* bytes.decode('utf-8'): [ok, text]; ok is FALSE for UnicodeDecodeError
Utf8DecodeFrom(b, i, out) ==
    IF i > Len(b) THEN [ok |-> TRUE, text |-> out]
    ELSE IF b[i] < 128
    THEN Utf8DecodeFrom(b, i + 1, Append(out, b[i]))
    ELSE IF /\ b[i] >= 194 /\ b[i] <= 223
            /\ i + 1 <= Len(b) /\ IsContinuation(b[i + 1])
    THEN Utf8DecodeFrom(b, i + 2,
             Append(out, (b[i] - 192) * 64 + (b[i + 1] - 128)))
    ELSE IF /\ b[i] >= 224 /\ b[i] <= 239
            /\ i + 2 <= Len(b)
            /\ IsContinuation(b[i + 1]) /\ IsContinuation(b[i + 2])
            /\ (b[i] = 224 => b[i + 1] >= 160)
            /\ (b[i] = 237 => b[i + 1] <= 159)
    THEN Utf8DecodeFrom(b, i + 3,
             Append(out, (b[i] - 224) * 4096 + (b[i + 1] - 128) * 64
                             + (b[i + 2] - 128)))
    ELSE [ok |-> FALSE, text |-> <<>>]

Utf8Decode(b) == Utf8DecodeFrom(b, 1, <<>>)

\* bytes.decode('latin-1'): every byte is the code point of the same value
Latin1Decode(b) == [i \in 1..Len(b) |-> b[i]]

RECURSIVE UniversalNewlinesFrom(_, _, _)
\* reading in text mode with newline=None: "\r\n" and "\r" become "\n"
UniversalNewlinesFrom(t, i, out) ==
    IF i > Len(t) THEN out
    ELSE IF t[i] = 13
         THEN UniversalNewlinesFrom(
                  t, IF i < Len(t) /\ t[i + 1] = 10 THEN i + 2 ELSE i + 1,
                  Append(out, 10))
         ELSE UniversalNewlinesFrom(t, i + 1, Append(out, t[i]))

UniversalNewlines(t) == UniversalNewlinesFrom(t, 1, <<>>)

\* striprtf.rtf_to_text on content without control words: group braces and
\* raw line ends are dropped, every other character is kept
rtf_to_text(t) == SelectSeq(t, LAMBDA c : c \notin {10, 13, 123, 125})

-----------------------------------------------------------------------------
(* DocumentProcessor: the extractors *)

\* what an extractor returns: a text, or the exception it raises
Extracted(t, enc) == [status |-> "ok", text |-> t, encoding |-> enc]
Raised(exception) == [status |-> exception, text |-> <<>>, encoding |-> ""]

extract_text_from_txt(files, path) ==
    IF ~exists(files, path) THEN Raised("FileNotFoundError")
    ELSE LET bytes == FileBytes(ContentAt(files, path))
             utf8  == Utf8Decode(bytes)
         IN  IF utf8.ok
             THEN Extracted(UniversalNewlines(utf8.text), "utf-8")
             ELSE Extracted(UniversalNewlines(Latin1Decode(bytes)),
                            "latin-1")

\* the cells of rows, in row-then-column order, read as utf-8
Utf8Cells(rows) ==
    LET cells == Flatten(rows)
    IN  [i \in 1..Len(cells) |-> Utf8Decode(cells[i]).text]

\* the cells of rows, in row-then-column order, read as latin-1
Latin1Cells(rows) ==
    LET cells == Flatten(rows)
    IN  [i \in 1..Len(cells) |-> Latin1Decode(cells[i])]

RowsValidUtf8(rows) ==
    \A i \in 1..Len(rows) : \A j \in 1..Len(rows[i]) :
        Utf8Decode(rows[i][j]).ok

RECURSIVE ReadRowsUtf8(_, _, _)
\* the loop `for row in csv_reader: text_content.extend(row)` over a file
\* opened as utf-8.  The reader decodes one buffer at a time: the rows of a
\* buffer reach the loop only when the whole buffer decodes, and a buffer
\* that does not decode raises UnicodeDecodeError with text_content as the
\* earlier buffers left it.
ReadRowsUtf8(rows, i, cells) ==
    IF i > Len(rows) THEN [ok |-> TRUE, text_content |-> cells]
    ELSE LET last   == Min(i + ChunkRows - 1, Len(rows))
             buffer == SubSeq(rows, i, last)
         IN  IF RowsValidUtf8(buffer)
             THEN ReadRowsUtf8(rows, last + 1,
                               cells \o Utf8Cells(buffer))
             ELSE [ok |-> FALSE, text_content |-> cells]

extract_text_from_csv(files, path) ==
    IF ~exists(files, path) THEN Raised("FileNotFoundError")
    ELSE LET rows  == ContentAt(files, path).body
             first == ReadRowsUtf8(rows, 1, <<>>)
         IN  IF first.ok
             THEN Extracted(Join(<<32>>, first.text_content), "utf-8")
             ELSE Extracted(
                      Join(<<32>>, first.text_content
                                     \o Latin1Cells(rows)),
                      "latin-1")

extract_text_from_rtf(files, path) ==
    IF ~exists(files, path) THEN Raised("FileNotFoundError")
    ELSE LET utf8 == Utf8Decode(FileBytes(ContentAt(files, path)))
         IN  IF utf8.ok
             THEN Extracted(rtf_to_text(UniversalNewlines(utf8.text)),
                            "utf-8")
             ELSE Raised("UnicodeDecodeError")

\* docx.Document raises PackageNotFoundError for a path that is missing or
\* is not a package
extract_text_from_docx(files, path) ==
    IF ~exists(files, path) \/ ContentAt(files, path).kind # "package"
    THEN Raised("PackageNotFoundError")
    ELSE Extracted(Join(<<10>>, ContentAt(files, path).body), "")

-----------------------------------------------------------------------------
(* DocumentProcessor.process_document *)

\* filename.rsplit('.', 1)[1] without .lower()
FileExtensionAsWritten(name) == rsplit(name)[2]

\* filename.rsplit('.', 1)[1].lower(), for a filename with a "."
file_extension(name) == lower(rsplit(name)[2])

extraction_methods ==
    [e \in {txt, csv, rtf, docx, doc} |->
        CASE e = txt  -> "extract_text_from_txt"
          [] e = csv  -> "extract_text_from_csv"
          [] e = rtf  -> "extract_text_from_rtf"
          [] e = docx -> "extract_text_from_docx"
          [] e = doc  -> "extract_text_from_docx"]

CallExtractor(method, files, path) ==
    CASE method = "extract_text_from_txt"  -> extract_text_from_txt(files, path)
      [] method = "extract_text_from_csv"  -> extract_text_from_csv(files, path)
      [] method = "extract_text_from_rtf"  -> extract_text_from_rtf(files, path)
      [] method = "extract_text_from_docx" -> extract_text_from_docx(files, path)

\* what a call of process_document did: the exception it raised or "ok",
\* the extractor it called, the format tag it derived, the text it returned
NoExtraction ==
    [status |-> "pending", called |-> "none", file_extension |-> <<>>,
     text |-> <<>>, encoding |-> ""]

process_document(files, path, name) ==
    IF Len(rsplit(name)) < 2
    THEN [NoExtraction EXCEPT !.status = "IndexError"]
    ELSE LET ext == file_extension(name)
         IN  IF ext \in DOMAIN extraction_methods
             THEN LET method == extraction_methods[ext]
                      got    == CallExtractor(method, files, path)
                  IN  [status |-> got.status, called |-> method,
                       file_extension |-> ext, text |-> got.text,
                       encoding |-> got.encoding]
             ELSE [NoExtraction EXCEPT !.status = "ValueError",
                                       !.file_extension = ext]

-----------------------------------------------------------------------------
(* upload_file: one process per request.  A request is at "start" (the     *)
(* checks of lines 212-224), "save", "process", "analyze", "remove",       *)
(* "render", in the handler of line 248 ("except", "except_remove",        *)
(* "flash"), or "done".                                                    *)

Requests == DOMAIN pc

\* the response: a rendered result, a redirect with a flashed message, or
\* the server's answer to an exception that left upload_file
NoOutcome == [kind |-> "pending", error |-> "", results |-> NoResult]

\* the handler's test without os.path.exists
FilePathBound(files, path) == path # <<>>

\* 'file_path' in locals() and os.path.exists(file_path)
ShouldRemoveInHandler(files, path) == path # <<>> /\ exists(files, path)

\* lines 212-224: no file part, an empty filename or a filename that
\* allowed_file refuses is answered with a redirect
CheckUpload(r) ==
    /\ pc[r] = "start"
    /\ IF ~request[r].has_file \/ request[r].filename = <<>>
       THEN /\ outcome' = [outcome EXCEPT ![r].kind = "no_file_selected"]
            /\ pc' = [pc EXCEPT ![r] = "done"]
       ELSE IF ~allowed_file(request[r].filename)
       THEN /\ outcome' = [outcome EXCEPT ![r].kind = "invalid_file_format"]
            /\ pc' = [pc EXCEPT ![r] = "done"]
       ELSE /\ outcome' = outcome
            /\ pc' = [pc EXCEPT ![r] = "save"]
    /\ UNCHANGED <<analyzerVars, request, filename, file_path, text_content,
                   analysis_results, extraction, removals, fs>>

\* lines 227-230; file.save is taken as one step, so a reader sees a file
\* whole or not at all
SaveUpload(r) ==
    /\ pc[r] = "save"
    /\ LET name == secure_filename(request[r].filename)
           path == JoinTempDir(name)
       IN  /\ filename' = [filename EXCEPT ![r] = name]
           /\ file_path' = [file_path EXCEPT ![r] = path]
           /\ fs' = SaveFile(fs, path, request[r].content)
    /\ pc' = [pc EXCEPT ![r] = "process"]
    /\ UNCHANGED <<analyzerVars, request, text_content, analysis_results,
                   extraction, outcome, removals>>

\* line 232
ProcessDocument(r) ==
    /\ pc[r] = "process"
    /\ LET got == process_document(fs, file_path[r], filename[r])
       IN  /\ extraction' = [extraction EXCEPT ![r] = got]
           /\ IF got.status = "ok"
              THEN /\ text_content' = [text_content EXCEPT ![r] = got.text]
                   /\ outcome' = outcome
                   /\ pc' = [pc EXCEPT ![r] = "analyze"]
              ELSE /\ text_content' = text_content
                   /\ outcome' = [outcome EXCEPT ![r].error = got.status]
                   /\ pc' = [pc EXCEPT ![r] = "except"]
    /\ UNCHANGED <<analyzerVars, request, filename, file_path,
                   analysis_results, removals, fs>>

\* line 234
AnalyzeUpload(r) ==
    /\ pc[r] = "analyze"
    /\ analysis_results' =
           [analysis_results EXCEPT ![r] = analyze_text(text_content[r])]
    /\ pc' = [pc EXCEPT ![r] = "remove"]
    /\ UNCHANGED <<analyzerVars, request, filename, file_path, text_content,
                   extraction, outcome, removals, fs>>

\* line 236: os.remove raises FileNotFoundError for a path that is gone
RemoveUpload(r) ==
    /\ pc[r] = "remove"
    /\ IF exists(fs, file_path[r])
       THEN /\ fs' = RemoveFile(fs, file_path[r])
            /\ removals' = [removals EXCEPT ![r] = @ + 1]
            /\ outcome' = outcome
            /\ pc' = [pc EXCEPT ![r] = "render"]
       ELSE /\ fs' = fs
            /\ removals' = removals
            /\ outcome' = [outcome EXCEPT ![r].error = "FileNotFoundError"]
            /\ pc' = [pc EXCEPT ![r] = "except"]
    /\ UNCHANGED <<analyzerVars, request, filename, file_path, text_content,
                   analysis_results, extraction>>

\* lines 238-246, the template renders
RenderResults(r) ==
    /\ pc[r] = "render"
    /\ outcome' = [outcome EXCEPT ![r].kind = "results",
                                  ![r].results = analysis_results[r]]
    /\ pc' = [pc EXCEPT ![r] = "done"]
    /\ UNCHANGED <<analyzerVars, request, filename, file_path, text_content,
                   analysis_results, extraction, removals, fs>>

\* lines 238-246, render_template raises
RenderRaises(r) ==
    /\ pc[r] = "render"
    /\ outcome' = [outcome EXCEPT ![r].error = "TemplateError"]
    /\ pc' = [pc EXCEPT ![r] = "except"]
    /\ UNCHANGED <<analyzerVars, request, filename, file_path, text_content,
                   analysis_results, extraction, removals, fs>>

\* line 249: the test, separate from the removal it guards
HandlerTest(r) ==
    /\ pc[r] = "except"
    /\ pc' = [pc EXCEPT ![r] =
                 IF ShouldRemoveInHandler(fs, file_path[r])
                 THEN "except_remove" ELSE "flash"]
    /\ UNCHANGED <<analyzerVars, request, filename, file_path, text_content,
                   analysis_results, extraction, outcome, removals, fs>>

\* line 250: an exception raised here leaves upload_file
HandlerRemove(r) ==
    /\ pc[r] = "except_remove"
    /\ IF exists(fs, file_path[r])
       THEN /\ fs' = RemoveFile(fs, file_path[r])
            /\ removals' = [removals EXCEPT ![r] = @ + 1]
            /\ outcome' = outcome
            /\ pc' = [pc EXCEPT ![r] = "flash"]
       ELSE /\ fs' = fs
            /\ removals' = removals
            /\ outcome' = [outcome EXCEPT ![r].kind = "server_error",
                                          ![r].error = "FileNotFoundError"]
            /\ pc' = [pc EXCEPT ![r] = "done"]
    /\ UNCHANGED <<analyzerVars, request, filename, file_path, text_content,
                   analysis_results, extraction>>

\* lines 252-253
FlashError(r) ==
    /\ pc[r] = "flash"
    /\ outcome' = [outcome EXCEPT ![r].kind = "error_processing_file"]
    /\ pc' = [pc EXCEPT ![r] = "done"]
    /\ UNCHANGED <<analyzerVars, request, filename, file_path, text_content,
                   analysis_results, extraction, removals, fs>>

-----------------------------------------------------------------------------
(* Uploads *)

Upload(name, content) ==
    [has_file |-> TRUE, filename |-> name, content |-> content]

\* a request without a file part
NoFilePart ==
    [has_file |-> FALSE, filename |-> <<>>, content |-> Delimited(<<>>)]

StemAlphabet == {"a", ".", " ", "/", "U+6587"}

Stems == SeqsUpTo(StemAlphabet, MaxStem)

Suffixes ==
    {<<>>, <<".">>}
        \cup {<<".">> \o e :
                 e \in ALLOWED_EXTENSIONS
                           \cup {<<"T", "X", "T">>, <<"p", "d", "f">>}}

Filenames == {stem \o suffix : stem \in Stems, suffix \in Suffixes}

\* "a", the utf-8 bytes of e-acute, the latin-1 byte of e-acute
Cells == {<<97>>, <<195, 169>>, <<233>>}

Rows == {<<c>> : c \in Cells} \cup {<<<<97>>, c>> : c \in Cells}

DelimitedFiles == {Delimited(rows) : rows \in SeqsUpTo(Rows, MaxRows)}

Paragraphs == {<<97>>, <<97, 32, 233>>}

Packages == {Package(ps) : ps \in SeqsUpTo(Paragraphs, MaxRows)}

SampleFilenames == {<<"a", ".">> \o e : e \in ALLOWED_EXTENSIONS}

SampleFiles ==
    {Delimited(<<>>), Delimited(<<<<<<97>>, <<195, 169>>>>, <<<<233>>>>>>)}

Uploads ==
    {Upload(name, content) : name \in Filenames, content \in SampleFiles}
        \cup {Upload(name, content) :
                 name \in SampleFilenames, content \in DelimitedFiles}
        \cup {Upload(<<"a", ".">> \o e, content) :
                 e \in {docx, doc}, content \in Packages}
        \cup {NoFilePart}

AnalyzerIdle == text = <<>> /\ result = NoResult

UploadStart(clients) ==
    /\ pc = [r \in clients |-> "start"]
    /\ filename = [r \in clients |-> <<>>]
    /\ file_path = [r \in clients |-> <<>>]
    /\ text_content = [r \in clients |-> <<>>]
    /\ analysis_results = [r \in clients |-> NoResult]
    /\ extraction = [r \in clients |-> NoExtraction]
    /\ outcome = [r \in clients |-> NoOutcome]
    /\ removals = [r \in clients |-> 0]
    /\ fs = {}

-----------------------------------------------------------------------------
(* Spec: one upload_file request *)

Init ==
    /\ AnalyzerIdle
    /\ request \in [{1} -> Uploads]
    /\ UploadStart({1})

\* upload_file, one step of one request at a time
Next ==
    \/ \E r \in Requests : CheckUpload(r)
    \/ \E r \in Requests : SaveUpload(r)
    \/ \E r \in Requests : ProcessDocument(r)
    \/ \E r \in Requests : AnalyzeUpload(r)
    \/ \E r \in Requests : RemoveUpload(r)
    \/ \E r \in Requests : RenderResults(r)
    \/ \E r \in Requests : RenderRaises(r)
    \/ \E r \in Requests : HandlerTest(r)
    \/ \E r \in Requests : HandlerRemove(r)
    \/ \E r \in Requests : FlashError(r)

Spec == Init /\ [][Next]_vars

-----------------------------------------------------------------------------
(* SpecDispatch: a call of process_document(file_path, filename) with any  *)
(* filename, on a file that is at file_path                                *)

InitDispatch ==
    /\ AnalyzerIdle
    /\ request \in [{1} -> {Upload(name, content) :
                               name \in Filenames, content \in SampleFiles}]
    /\ pc = [r \in {1} |-> "process"]
    /\ filename = [r \in {1} |-> request[r].filename]
    /\ file_path = [r \in {1} |-> JoinTempDir(request[r].filename)]
    /\ text_content = [r \in {1} |-> <<>>]
    /\ analysis_results = [r \in {1} |-> NoResult]
    /\ extraction = [r \in {1} |-> NoExtraction]
    /\ outcome = [r \in {1} |-> NoOutcome]
    /\ removals = [r \in {1} |-> 0]
    /\ fs = {<<file_path[1], request[1].content>>}

NextDispatch == \E r \in Requests : ProcessDocument(r)

SpecDispatch == InitDispatch /\ [][NextDispatch]_vars

-----------------------------------------------------------------------------
(* SpecConcurrent: two upload_file requests served by two threads *)

\* "a.txt", a name that secure_filename turns into "a.txt", and "aa.txt"
ConcurrentFilenames ==
    {<<"a", ".">> \o txt, <<"U+6587", "a", ".">> \o txt,
     <<"a", "a", ".">> \o txt}

ConcurrentFiles ==
    {Delimited(<<<<<<97>>>>>>), Delimited(<<<<<<97>>, <<97>>>>, <<<<233>>>>>>)}

InitConcurrent ==
    /\ AnalyzerIdle
    /\ request \in [{1, 2} -> {Upload(name, content) :
                                  name \in ConcurrentFilenames,
                                  content \in ConcurrentFiles}]
    /\ request[1].content # request[2].content
    /\ UploadStart({1, 2})

SpecConcurrent == InitConcurrent /\ [][Next]_vars

-----------------------------------------------------------------------------
(* Claims about DocumentProcessor and upload_file *)

\* the part of name after its last ".", for a name with a "."
TrailingExtension(name) ==
    CHOOSE e \in {SubSeq(name, k + 1, Len(name)) : k \in Dots(name)} :
        Dots(e) = {}

Processed(r) == extraction[r].status # "pending"

\* C5: process_document answers a filename whose lower-cased extension is
\* not txt, csv, rtf, docx or doc with ValueError naming that extension and
\* calls no extractor; for txt, csv and rtf it calls the extractor of that
\* name and for docx and doc the word-processor extractor.
C5_Dispatch ==
    \A r \in Requests :
        (Processed(r) /\ Dots(filename[r]) # {}) =>
            LET e == lower(TrailingExtension(filename[r]))
            IN  /\ e \notin {txt, csv, rtf, docx, doc} =>
                       /\ extraction[r].status = "ValueError"
                       /\ extraction[r].file_extension = e
                       /\ extraction[r].called = "none"
                /\ e = txt => extraction[r].called = "extract_text_from_txt"
                /\ e = csv => extraction[r].called = "extract_text_from_csv"
                /\ e = rtf => extraction[r].called = "extract_text_from_rtf"
                /\ e \in {docx, doc} =>
                       extraction[r].called = "extract_text_from_docx"

C5_Witness ==
    \E r \in Requests :
        /\ extraction[r].status = "ValueError"
        /\ extraction[r].file_extension = <<"p", "d", "f">>
        /\ extraction[r].called = "none"

C5_WitnessUpperCase ==
    \E r \in Requests :
        /\ Dots(filename[r]) # {}
        /\ TrailingExtension(filename[r]) = <<"T", "X", "T">>
        /\ extraction[r].called = "extract_text_from_txt"

\* C6: the text extract_text_from_csv returns is the cells of all rows in
\* row-then-column order, each once, joined by single spaces, whether the
\* utf-8 pass completes or the latin-1 pass is taken after a decode error.
C6_CsvCellsOnce ==
    \A r \in Requests :
        (extraction[r].called = "extract_text_from_csv"
             /\ extraction[r].status = "ok") =>
            LET rows == request[r].content.body
            IN  IF extraction[r].encoding = "utf-8"
                THEN extraction[r].text
                         = Join(<<32>>, Utf8Cells(rows))
                ELSE extraction[r].text
                         = Join(<<32>>, Latin1Cells(rows))

\* C7: for txt, csv and rtf, content that is not valid utf-8 is extracted
\* through the latin-1 fallback and yields a text, not a decode error.
C7_FallbackDecoding ==
    \A r \in Requests :
        (/\ Processed(r)
         /\ extraction[r].file_extension \in {txt, csv, rtf}
         /\ ~Utf8Decode(FileBytes(request[r].content)).ok) =>
            /\ extraction[r].status = "ok"
            /\ extraction[r].encoding = "latin-1"

\* C8: a filename that reaches process_document is dispatched on an
\* extension in the allowed set or gets the unsupported-format error naming
\* its extension; for a filename allowed_file accepts, the tag derived from
\* the sanitized filename is the extension allowed_file checked.
C8_TagDerivation ==
    \A r \in Requests :
        /\ (pc[r] = "done" /\ outcome[r].kind
                \in {"no_file_selected", "invalid_file_format"}) =>
               ~Processed(r)
        /\ Processed(r) =>
               /\ \/ /\ extraction[r].called # "none"
                     /\ extraction[r].file_extension \in ALLOWED_EXTENSIONS
                  \/ /\ extraction[r].status = "ValueError"
                     /\ extraction[r].called = "none"
               /\ allowed_file(request[r].filename) =>
                      extraction[r].file_extension
                          = lower(TrailingExtension(request[r].filename))

\* C9: a request never removes its temporary file twice, and when it
\* returns after the file was saved, the file is gone, removed once.
C9_TempFileRemoved ==
    \A r \in Requests :
        /\ removals[r] <= 1
        /\ outcome[r].kind # "server_error"
        /\ (pc[r] = "done" /\ file_path[r] # <<>>) =>
               /\ ~exists(fs, file_path[r])
               /\ removals[r] = 1

C9_Witness ==
    \E r \in Requests :
        /\ pc[r] = "done"
        /\ outcome[r].kind = "error_processing_file"
        /\ outcome[r].error = "TemplateError"
        /\ removals[r] = 1
        /\ ~exists(fs, file_path[r])

C9_WitnessExtractionRaises ==
    \E r \in Requests :
        /\ pc[r] = "done"
        /\ outcome[r].error = "UnicodeDecodeError"
        /\ removals[r] = 1
        /\ ~exists(fs, file_path[r])

\* what process_document returns to request r when no other request
\* touches its temporary file
OwnExtraction(r) ==
    process_document({<<file_path[r], request[r].content>>}, file_path[r],
                     filename[r])

\* C10: under every interleaving of two requests each request extracts and
\* analyzes its own content, its temporary file exists with its own content
\* from its save to its own removal, and no removal finds the file gone.
C10_Isolation ==
    \A r \in Requests :
        /\ Processed(r) => extraction[r] = OwnExtraction(r)
        /\ analysis_results[r] # NoResult =>
               analysis_results[r] = analyze_text(OwnExtraction(r).text)
        /\ pc[r] \in {"process", "analyze", "remove"} =>
               /\ exists(fs, file_path[r])
               /\ ContentAt(fs, file_path[r]) = request[r].content
        /\ outcome[r].error # "FileNotFoundError"

=============================================================================
